---- MODULE Spec2Model ----
(***************************************************************************)
(* A model of mock_snow.py: the e-mail driven ServiceNow agent.            *)
(*                                                                         *)
(* process_emails() is a sequential loop over the unread messages; its     *)
(* position is `pc`.  The steps are cut at the calls to the collaborators  *)
(* (mail provider, language model, ticketing backend), whose answers are   *)
(* the nondeterministic inputs of the model.                               *)
(*                                                                         *)
(* An e-mail body is a sequence of one-character strings, so that lower(), *)
(* startswith(), strip() and the two regular expressions of analyze_email  *)
(* are computed character by character.                                    *)
(***************************************************************************)
EXTENDS Integers, Sequences, FiniteSets, TLC

VARIABLES
    model,      \* TRUE iff the module-level `model` is not None
    pc,         \* position in process_emails / analyze_email
    n,          \* len(messages)
    i,          \* index of the message being processed (enumerate)
    msg,        \* the message being processed: [subject, body]
    analysis,   \* the value analyze_email returned for msg
    calls,      \* the outcome of each call of model.generate_content made for msg
    waits,      \* the sleeps of the retry wrapper for msg, in order
    returned,   \* the response call_gemini_with_retry returned for msg
    effects,    \* the calls made to backend, ledger and gateway for msg, in full
    ledger,     \* lines appended to ticket_ids.txt
    trace,      \* every call made to the collaborators so far, in order
    aborted     \* which exception ended process_emails early, or "no"

vars == <<model, pc, n, i, msg, analysis, calls, waits, returned, effects, ledger, trace, aborted>>

\* ------------------------------------------------------------- bounds

\* The largest batch of unread messages the mail provider returns.
MaxBatch == 2

\* The retry wrapper is followed for at most this many retries of one call.
MaxRetries == 3

\* ------------------------------------------------- characters, strings

Backtick == "BQ"    \* stands for the one character U+0060

UpperChars ==
    <<"A","B","C","D","E","F","G","H","I","J","K","L","M",
      "N","O","P","Q","R","S","T","U","V","W","X","Y","Z">>
LowerChars ==
    <<"a","b","c","d","e","f","g","h","i","j","k","l","m",
      "n","o","p","q","r","s","t","u","v","w","x","y","z">>
DigitChars == {"0","1","2","3","4","5","6","7","8","9"}
SpaceChars == {" ", "\n", "\t", "\r"}

Range(s) == {s[k] : k \in DOMAIN s}

IndexIn(s, c) == CHOOSE k \in DOMAIN s : s[k] = c

\* str.lower() and str.upper() on one character
LowerChar(c) == IF c \in Range(UpperChars) THEN LowerChars[IndexIn(UpperChars, c)] ELSE c
UpperChar(c) == IF c \in Range(LowerChars) THEN UpperChars[IndexIn(LowerChars, c)] ELSE c

Lower(s) == [k \in DOMAIN s |-> LowerChar(s[k])]
Upper(s) == [k \in DOMAIN s |-> UpperChar(s[k])]

\* str.capitalize(): first character upper-cased, the rest lower-cased
Capitalize(s) == [k \in DOMAIN s |-> IF k = 1 THEN UpperChar(s[k]) ELSE LowerChar(s[k])]

\* the regular expression classes \w and \d
IsWordChar(c) == c \in Range(UpperChars) \cup Range(LowerChars) \cup DigitChars \cup {"_"}
IsDigit(c) == c \in DigitChars

\* s[p:p+len(lit)] == lit  (p is a 1-based position)
HasAt(s, p, lit) ==
    /\ p >= 1
    /\ p + Len(lit) - 1 <= Len(s)
    /\ \A k \in 1..Len(lit) : s[p + k - 1] = lit[k]

StartsWith(s, lit) == HasAt(s, 1, lit)

\* lit in s
Contains(s, lit) == \E p \in 1..Len(s) : HasAt(s, p, lit)

\* str.strip(): leading and trailing whitespace removed
Strip(s) ==
    LET inked == {k \in DOMAIN s : s[k] \notin SpaceChars}
    IN  IF inked = {} THEN <<>>
        ELSE LET lo == CHOOSE k \in inked : \A j \in inked : k <= j
                 hi == CHOOSE k \in inked : \A j \in inked : k >= j
             IN  SubSeq(s, lo, hi)

\* str.rstrip(chars): trailing characters that are in `chars` removed
RStrip(s, chars) ==
    LET kept == {k \in DOMAIN s : s[k] \notin chars}
    IN  IF kept = {} THEN <<>>
        ELSE SubSeq(s, 1, CHOOSE k \in kept : \A j \in kept : k >= j)

\* where a greedy run that started at p ends: before the first position of
\* `stops` (the positions the run cannot take), or at the end of s
RunEnd(s, p, stops) ==
    IF stops = {} THEN Len(s)
    ELSE (CHOOSE k \in stops : \A j \in stops : k <= j) - 1

\* the end of \w+ and of .+ matched from position p
WordRunEnd(s, p) == RunEnd(s, p, {k \in p..Len(s) : ~IsWordChar(s[k])})
LineRunEnd(s, p) == RunEnd(s, p, {k \in p..Len(s) : s[k] = "\n"})

\* ------------------------------------------------------ Python values

None == "None"      \* Python's None, as dict.get() returns for a missing key

\* A dict is a function from its keys; a return value of json.loads() that is
\* no dict (a list, a string, a number, null) has no .get.
PyDict(d) == [type |-> "dict", items |-> d]
PyList == [type |-> "list"]

\* Instead of a value: the exception a function lets escape to its caller.
PyRaise(exc) == [type |-> "raised", exc |-> exc]

IsDict(v) == v.type = "dict"

\* dict.get(key)
Get(v, key) == IF key \in DOMAIN v.items THEN v.items[key] ELSE None

\* A JSON array as a member's value: a Python list, which is unhashable.
ListValue == "[list]"
IsHashable(x) == x # ListValue

\* The text of a field value: the string spelled by a character sequence.
Lexicon ==
    {
      <<"INC0010111",
        <<"I","N","C","0","0","1","0","1","1","1">>>>,
      <<"CHG0000099",
        <<"C","H","G","0","0","0","0","0","9","9">>>>,
      <<"ABC1234567",
        <<"A","B","C","1","2","3","4","5","6","7">>>>,
      <<"Resolved",
        <<"R","e","s","o","l","v","e","d">>>>,
      <<"Closed",
        <<"C","l","o","s","e","d">>>>,
      <<"New",
        <<"N","e","w">>>>,
      <<"Cancelled",
        <<"C","a","n","c","e","l","l","e","d">>>>,
      <<"Bogus",
        <<"B","o","g","u","s">>>>,
      <<"In",
        <<"I","n">>>>,
      <<"On",
        <<"O","n">>>>,
      <<"fixed root cause",
        <<"f","i","x","e","d"," ","r","o","o","t"," ","c","a","u","s","e">>>>,
      <<"Reopen it",
        <<"R","e","o","p","e","n"," ","i","t">>>>,
      <<"wait",
        <<"w","a","i","t">>>>,
      <<"INC0000001",
        <<"I","N","C","0","0","0","0","0","0","1">>>>,
      <<"done",
        <<"d","o","n","e">>>>,
      <<"In Progress",
        <<"I","n"," ","P","r","o","g","r","e","s","s">>>>,
      <<"On Hold",
        <<"O","n"," ","H","o","l","d">>>>
    }

\* the characters of a string of the lexicon
Chars(str) == (CHOOSE w \in Lexicon : w[1] = str)[2]

Str(cs) ==
    IF \E w \in Lexicon : w[2] = cs
    THEN (CHOOSE w \in Lexicon : w[2] = cs)[1]
    ELSE "?"

\* ------------------------------------------------------ analyze_email

LitChange ==
    <<"c","h","a","n","g","e",":">>
LitSetTicketIn ==
    <<"s","e","t"," ","t","i","c","k","e","t">>
LitSetTicket ==
    <<"s","e","t"," ","t","i","c","k","e","t"," ">>
LitTo ==
    <<" ","t","o"," ">>
LitWithComment ==
    <<"w","i","t","h"," ","c","o","m","m","e","n","t",":"," ">>
LitINC ==
    <<"I","N","C">>

\* the dict every failure path of analyze_email returns
SafeDefault ==
    [action |-> "ignore", priority |-> "normal", table |-> "incident", status |-> "New"]

\* the dict returned for a body that starts with "change:"
ChangeAction ==
    [action |-> "create_change", priority |-> "normal",
     table |-> "change_request", status |-> "New"]

\* the keys of state_map (the same dict in analyze_email and update_ticket)
StateMapKeys == {"New", "In Progress", "On Hold", "Resolved", "Closed", "Cancelled"}

\* state_map with the codes of Resolved and Closed exchanged
StateMapExchanged(status) ==
    CASE status = "New"         -> "1"
      [] status = "In Progress" -> "2"
      [] status = "On Hold"     -> "3"
      [] status = "Resolved"    -> "7"
      [] status = "Closed"      -> "6"
      [] status = "Cancelled"   -> "8"

\* state_map[status]
StateMap(status) ==
    CASE status = "New"         -> "1"
      [] status = "In Progress" -> "2"
      [] status = "On Hold"     -> "3"
      [] status = "Resolved"    -> "6"
      [] status = "Closed"      -> "7"
      [] status = "Cancelled"   -> "8"

NotNewline(c) == c # "\n"

\* r"set ticket (\w{3}\d{7}) to (\w+)" matches at position p of s
CommandAt(s, p) ==
    LET t == p + Len(LitSetTicket)      \* where group 1 starts
    IN  /\ HasAt(s, p, LitSetTicket)
        /\ t + 9 <= Len(s)
        /\ \A k \in 0..2 : IsWordChar(s[t + k])
        /\ \A k \in 3..9 : IsDigit(s[t + k])
        /\ HasAt(s, t + 10, LitTo)
        /\ t + 10 + Len(LitTo) <= Len(s)
        /\ IsWordChar(s[t + 10 + Len(LitTo)])

\* re.search of the command: the leftmost position it matches at, 0 if none
CommandSearch(s) ==
    LET hits == {p \in 1..Len(s) : CommandAt(s, p)}
    IN  IF hits = {} THEN 0 ELSE CHOOSE p \in hits : \A q \in hits : p <= q

\* group 1 and group 2 of a command match at p
CommandTicket(s, p) ==
    SubSeq(s, p + Len(LitSetTicket), p + Len(LitSetTicket) + 9)
CommandStatus(s, p) ==
    LET w == p + Len(LitSetTicket) + 10 + Len(LitTo)
    IN  SubSeq(s, w, WordRunEnd(s, w))

\* r"with comment: (.+)" with re.IGNORECASE matches at position p of s
CommentAt(s, p) ==
    /\ HasAt(Lower(s), p, LitWithComment)
    /\ p + Len(LitWithComment) <= Len(s)
    /\ NotNewline(s[p + Len(LitWithComment)])

CommentSearch(s) ==
    LET hits == {p \in 1..Len(s) : CommentAt(s, p)}
    IN  IF hits = {} THEN 0 ELSE CHOOSE p \in hits : \A q \in hits : p <= q

\* group 1 of a comment match at p: up to the end of the line
CommentText(s, p) ==
    LET w == p + Len(LitWithComment)
    IN  SubSeq(s, w, LineRunEnd(s, w))

\* status in state_map
StatusKnown(status) == status \in StateMapKeys

\* 'incident' if ticket_number.startswith('INC') else 'change_request'
TableOf(ticket) == IF StartsWith(ticket, LitINC) THEN "incident" ELSE "change_request"

\* the body of `if match:` in analyze_email, for a command match at p
UpdateCommand(email_content, p) ==
    LET ticket_number == Upper(CommandTicket(Lower(email_content), p))
        status == Str(Capitalize(CommandStatus(Lower(email_content), p)))
        c == CommentSearch(email_content)
        comment == IF c # 0 THEN Str(CommentText(email_content, c))
                   ELSE "Updated via email"
    IN  IF StatusKnown(status)
        THEN [action |-> "update_ticket",
              ticket_number |-> Str(ticket_number),
              table |-> TableOf(ticket_number),
              status |-> status,
              comment |-> comment]
        ELSE SafeDefault

\* `not model`
ModelMissing(m) == ~m

\* `not email_content or email_content.strip() == ""`
IsEmpty(email_content) == email_content = <<>> \/ Strip(email_content) = <<>>

\* email_content.lower().startswith("change:")
IsChange(email_content) == StartsWith(Lower(email_content), LitChange)

\* analyze_email up to the prompt: the dict it returns without calling the
\* model, or None when it goes on to the call
Rules(m, email_content) ==
    IF ModelMissing(m) THEN PyDict(SafeDefault)
    ELSE IF IsEmpty(email_content) THEN PyDict(SafeDefault)
    ELSE IF IsChange(email_content) THEN PyDict(ChangeAction)
    ELSE IF /\ Contains(Lower(email_content), LitSetTicketIn)
            /\ CommandSearch(Lower(email_content)) # 0
         THEN PyDict(UpdateCommand(email_content, CommandSearch(Lower(email_content))))
    ELSE [type |-> None]

\* ------------------------------------------- the model's response text

\* A response text is a sequence of characters in which a whole JSON document
\* stands as one element, named by its key in Documents; Prose is text that
\* is no JSON document.
Documents ==
    [incident_high |->
        PyDict([action |-> "create_incident", priority |-> "high",
                table |-> "incident", status |-> "New"]),
     change |->
        PyDict([action |-> "create_change", priority |-> "high",
                table |-> "change_request", status |-> "New"]),
     set_resolved |->
        PyDict([action |-> "set_resolved", priority |-> "normal",
                table |-> "incident", status |-> "Resolved"]),
     approve |->
        PyDict([action |-> "approve", priority |-> "normal",
                table |-> "change_request", status |-> "In Progress"]),
     ignore |->
        PyDict([action |-> "ignore", priority |-> "high",
                table |-> "change_request", status |-> "Closed"]),
     escalate |->
        PyDict([action |-> "escalate", priority |-> "high",
                table |-> "incident", status |-> "New"]),
     update_inc_as_change |->
        PyDict([action |-> "update_ticket", ticket_number |-> "INC0000001",
                priority |-> "normal", table |-> "change_request",
                status |-> "In Progress", comment |-> "done"]),
     update_chg |->
        PyDict([action |-> "update_ticket", ticket_number |-> "CHG0000099",
                priority |-> "high", table |-> "change_request",
                status |-> "On Hold", comment |-> "wait"]),
     update_odd |->
        PyDict([action |-> "update_ticket", ticket_number |-> "INC0000001",
                table |-> "incident", status |-> "Bogus"]),
     update_list |->
        PyDict([action |-> "update_ticket", ticket_number |-> "INC0000001",
                table |-> "incident", status |-> ListValue, comment |-> "done"]),
     empty_object |-> PyDict(<<>>),
     array |-> PyList]

Prose == "Sure, here is the JSON"

FenceJson == <<Backtick, Backtick, Backtick, "j", "s", "o", "n">>
Fence == <<Backtick, Backtick, Backtick>>

Plain(doc) == <<doc>>
FencedJson(doc) == FenceJson \o <<"\n", doc, "\n">> \o Fence \o <<"\n">>
Fenced(doc) == <<" ">> \o Fence \o <<"\n", doc, "\n">> \o Fence

\* the texts the model answers with
Texts ==
    {Plain(doc) : doc \in DOMAIN Documents}
    \cup {FencedJson("incident_high"), Fenced("change"), FencedJson(Prose),
          Plain(Prose), <<"incident_high", " ", "change">>, <<>>,
          Fence \o <<" ", "j", "s", "o", "n", "\n", "change", "\n">> \o Fence}

\* lines 151-155: strip, and drop a code fence
Unfence(response_text) ==
    LET text == Strip(response_text)
    IN  IF StartsWith(text, FenceJson)
        THEN Strip(RStrip(SubSeq(text, Len(FenceJson) + 1, Len(text)), {Backtick}))
        ELSE IF StartsWith(text, Fence)
        THEN Strip(RStrip(SubSeq(text, Len(Fence) + 1, Len(text)), {Backtick}))
        ELSE text

\* json.loads(text) succeeds: one document, whitespace around it allowed
IsJson(text) == Len(Strip(text)) = 1 /\ Strip(text)[1] \in DOMAIN Documents

\* json.loads(text)
Loads(text) == Documents[Strip(text)[1]]

\* Handler with the exception left to escape to the caller
HandlerReraises(exc) == PyRaise(exc)

\* the three except clauses of analyze_email: each returns the safe default
Handler(exc) ==
    CASE exc = "JSONDecodeError"   -> PyDict(SafeDefault)
      [] exc = "ResourceExhausted" -> PyDict(SafeDefault)
      [] OTHER                     -> PyDict(SafeDefault)

\* lines 151-161 for a response the call returned; response.text raises
\* ValueError for a response without text (a blocked one)
AfterCall(response) ==
    IF ~response.has_text THEN Handler("ValueError")
    ELSE IF IsJson(Unfence(response.text)) THEN Loads(Unfence(response.text))
    ELSE Handler("JSONDecodeError")

\* what model.generate_content does: returns a response or raises
Responses == {[has_text |-> TRUE, text |-> t] : t \in Texts} \cup {[has_text |-> FALSE]}
Exceptions == {"ResourceExhausted", "ServiceUnavailable"}

\* ---------------------------------------------- call_gemini_with_retry

Initial == 46
Maximum == 120
Multiplier == 2

\* retry.if_exception_type(exceptions.ResourceExhausted)
Predicate(exc) == exc = "ResourceExhausted"

Min(a, b) == IF a <= b THEN a ELSE b

RECURSIVE DelayUncapped(_)
\* Delay without the cap at maximum
DelayUncapped(k) == IF k = 0 THEN Initial ELSE Multiplier * DelayUncapped(k - 1)

RECURSIVE Delay(_)
\* the delay of the backoff before retry number k + 1: initial, multiplied
\* by multiplier per retry, never above maximum
Delay(k) == IF k = 0 THEN Min(Initial, Maximum) ELSE Min(Multiplier * Delay(k - 1), Maximum)

\* google.api_core's Retry sleeps a random time, uniform between 0 and the
\* delay (jitter); two of these times stand for all of them.
Sleeps(k) == {Delay(k) \div 2, Delay(k)}

\* ------------------------------------------------------- the mailbox

BodyChange ==
    <<"C","h","a","n","g","e",":"," ","I","n","s","t","a","l","l"," ","s","o","f","t","w","a","r","e">>
BodyChangeSet ==
    <<"C","H","A","N","G","E",":"," ","s","e","t"," ","t","i","c","k","e","t"," ","I","N","C","0","0","1","0","1","1","1"," ","t","o"," ","c","l","o","s","e","d">>
BodyResolved ==
    <<"s","e","t"," ","t","i","c","k","e","t"," ","i","n","c","0","0","1","0","1","1","1"," ","t","o"," ","r","e","s","o","l","v","e","d"," ","w","i","t","h"," ","c","o","m","m","e","n","t",":"," ","f","i","x","e","d"," ","r","o","o","t"," ","c","a","u","s","e">>
BodyClosed ==
    <<"H","i",","," ","S","e","t"," ","T","i","c","k","e","t"," ","C","H","G","0","0","0","0","0","9","9"," ","T","o"," ","C","l","o","s","e","d","\n","t","h","a","n","k","s">>
BodyNew ==
    <<"s","e","t"," ","t","i","c","k","e","t"," ","a","b","c","1","2","3","4","5","6","7"," ","t","o"," ","N","E","W"," ","w","i","t","h"," ","c","o","m","m","e","n","t",":"," ","R","e","o","p","e","n"," ","i","t","\n","r","e","g","a","r","d","s">>
BodyCancelled ==
    <<"s","e","t"," ","t","i","c","k","e","t"," ","I","N","C","0","0","1","0","1","1","1"," ","t","o"," ","c","a","n","c","e","l","l","e","d">>
BodyBogus ==
    <<"s","e","t"," ","t","i","c","k","e","t"," ","C","H","G","0","0","0","0","0","9","9"," ","t","o"," ","b","o","g","u","s">>
BodyInProgress ==
    <<"s","e","t"," ","t","i","c","k","e","t"," ","I","N","C","0","0","1","0","1","1","1"," ","t","o"," ","i","n"," ","p","r","o","g","r","e","s","s">>
BodyOnHold ==
    <<"s","e","t"," ","t","i","c","k","e","t"," ","C","H","G","0","0","0","0","0","9","9"," ","t","o"," ","O","n"," ","H","o","l","d"," ","w","i","t","h"," ","c","o","m","m","e","n","t",":"," ","w","a","i","t">>
BodyNoCommand ==
    <<"p","l","e","a","s","e"," ","s","e","t"," ","t","i","c","k","e","t"," ","s","o","o","n">>
BodyPrinter ==
    <<"U","r","g","e","n","t",":"," ","P","r","i","n","t","e","r"," ","b","r","o","k","e","n">>
BodyBlank ==
    <<" ","\n","\t">>
BodyEmpty == <<>>

\* the unread messages the mail provider may hold: subject and extracted body
Emails ==
    {[subject |-> "Install software", body |-> BodyChange],
     [subject |-> "Close it", body |-> BodyChangeSet],
     [subject |-> "Printer fixed", body |-> BodyResolved],
     [subject |-> "Re: firewall change", body |-> BodyClosed],
     [subject |-> "Reopen", body |-> BodyNew],
     [subject |-> "Cancel", body |-> BodyCancelled],
     [subject |-> "Typo", body |-> BodyBogus],
     [subject |-> "Working on it", body |-> BodyInProgress],
     [subject |-> "Hold", body |-> BodyOnHold],
     [subject |-> "Reminder", body |-> BodyNoCommand],
     [subject |-> "Printer broken", body |-> BodyPrinter],
     [subject |-> "(no text)", body |-> BodyBlank],
     [subject |-> "Empty", body |-> BodyEmpty]}

\* ------------------------------------------------------ create_ticket

\* CreateData with the approval flag set whatever the table, and normal
\* priority taken for the most urgent
CreateDataAlwaysApproval(table, subject, description, priority) ==
    [short_description |-> subject,
     description |-> description,
     assignment_group |-> "287ebd7da9fe198100f92cc8d1d2154e",
     urgency |-> IF priority = "normal" THEN "1" ELSE "2",
     impact |-> IF priority = "normal" THEN "1" ELSE "2",
     state |-> "1",
     approval |-> "requested"]

\* the JSON body of the POST
CreateData(table, subject, description, priority) ==
    LET data == [short_description |-> subject,
                 description |-> description,
                 assignment_group |-> "287ebd7da9fe198100f92cc8d1d2154e",
                 urgency |-> IF priority = "high" THEN "1" ELSE "2",
                 impact |-> IF priority = "high" THEN "1" ELSE "2",
                 state |-> "1"]
    IN  IF table = "change_request" THEN ("approval" :> "requested") @@ data ELSE data

\* what requests.post does: a response, or an exception.  A 201 carries
\* result.sys_id and result.number (the interface of the backend).
PostOutcomes ==
    {[status_code |-> 201, result |-> [sys_id |-> "9d385017c611228701d22104cc95c371",
                                      number |-> "CHG0030001"]],
     [status_code |-> 500],
     [raised |-> "ConnectionError"]}

Raised(outcome) == "raised" \in DOMAIN outcome

\* the (sys_id, number) create_ticket returns
CreateReturn(outcome) ==
    IF ~Raised(outcome) /\ outcome.status_code = 201
    THEN <<outcome.result.sys_id, outcome.result.number>>
    ELSE <<None, None>>

\* `if ticket_id:`
Truthy(x) == x # None /\ x # ""

\* ------------------------------------------------------ update_ticket

\* the JSON body of the PATCH
UpdateData(table, status, comment, priority) ==
    LET data == [state |-> IF StatusKnown(status) THEN StateMap(status) ELSE "1",
                 comments |-> comment,
                 priority |-> IF priority = "high" THEN "1" ELSE "4"]
    IN  IF table = "change_request" /\ status = "In Progress"
        THEN ("approval" :> "approved") @@ data
        ELSE data

\* what requests.patch does
PatchOutcomes == {[status_code |-> 200], [status_code |-> 404], [raised |-> "ConnectionError"]}

\* ------------------------------------------------------ process_emails

ManagerEmail == "MANAGER_EMAIL"

\* the branch of the if/elif chain of process_emails an action takes
IsCreate(action) == action = "create_incident" \/ action = "create_change"
\* IsUpdate taking the bare status intents for updates as well
IsUpdateOrSet(action) ==
    action \in {"update_ticket", "set_new", "set_in_progress", "set_on_hold",
                "set_resolved", "set_closed", "set_cancelled"}
IsUpdate(action) == action = "update_ticket"
IsLogged(action) == action # "ignore" /\ ~IsCreate(action) /\ ~IsUpdate(action)

Init ==
    /\ model \in BOOLEAN
    /\ pc = "start"
    /\ n = 0
    /\ i = 0
    /\ msg = None
    /\ analysis = None
    /\ calls = <<>>
    /\ waits = <<>>
    /\ returned = None
    /\ effects = <<>>
    /\ ledger = <<>>
    /\ trace = <<>>
    /\ aborted = "no"

\* an exception reaches the except clause of process_emails
Abort(exc) ==
    /\ aborted' = exc
    /\ pc' = "done"

\* get_gmail_service() returns a service, or None
GetService ==
    /\ pc = "start"
    /\ \E service \in BOOLEAN : pc' = IF service THEN "list" ELSE "done"
    /\ UNCHANGED <<model, n, i, msg, analysis, calls, waits, returned, effects, ledger, trace, aborted>>

\* messages().list(): `count` unread messages
ListMessages ==
    /\ pc = "list"
    /\ \E count \in 0..MaxBatch :
         /\ n' = count
         /\ pc' = IF count = 0 THEN "done" ELSE "get"
    /\ UNCHANGED <<model, i, msg, analysis, calls, waits, returned, effects, ledger, trace, aborted>>

ListFails ==
    /\ pc = "list"
    /\ Abort("HttpError")
    /\ UNCHANGED <<model, n, i, msg, analysis, calls, waits, returned, effects, ledger, trace>>

\* messages().get(): subject and body of message i
GetMessage ==
    /\ pc = "get"
    /\ \E email \in Emails :
         /\ msg' = email
         /\ trace' = Append(trace, [op |-> "get", id |-> i])
    /\ pc' = "analyze"
    /\ analysis' = None
    /\ calls' = <<>>
    /\ waits' = <<>>
    /\ returned' = None
    /\ effects' = <<>>
    /\ UNCHANGED <<model, n, i, ledger, aborted>>

GetFails ==
    /\ pc = "get"
    /\ Abort("HttpError")
    /\ UNCHANGED <<model, n, i, msg, analysis, calls, waits, returned, effects, ledger, trace>>

\* analyze_email returns without calling the model
AnalyzeByRule ==
    /\ pc = "analyze"
    /\ Rules(model, msg.body).type # None
    /\ analysis' = Rules(model, msg.body)
    /\ pc' = "dispatch"
    /\ UNCHANGED <<model, n, i, msg, calls, waits, returned, effects, ledger, trace, aborted>>

\* analyze_email builds the prompt and enters call_gemini_with_retry
AnalyzeByModel ==
    /\ pc = "analyze"
    /\ Rules(model, msg.body).type = None
    /\ pc' = "call"
    /\ UNCHANGED <<model, n, i, msg, analysis, calls, waits, returned, effects, ledger, trace, aborted>>

\* what call_gemini_with_retry hands to analyze_email when the call returns
RetryReturn(response) == response

\* model.generate_content(prompt) returns a response
CallReturns ==
    /\ pc = "call"
    /\ \E response \in Responses :
         /\ calls' = Append(calls, [response |-> response])
         /\ returned' = RetryReturn(response)
         /\ analysis' = AfterCall(RetryReturn(response))
    /\ pc' = "dispatch"
    /\ UNCHANGED <<model, n, i, msg, waits, effects, ledger, trace, aborted>>

\* the wrapper retries the exception
Retried(exc) == Predicate(exc)

\* model.generate_content(prompt) raises
CallRaises ==
    /\ pc = "call"
    /\ \E exc \in Exceptions :
         /\ calls' = Append(calls, [raised |-> exc])
         /\ IF Retried(exc)
            THEN /\ pc' = "backoff"
                 /\ UNCHANGED analysis
            ELSE /\ pc' = "dispatch"
                 /\ analysis' = Handler(exc)
    /\ UNCHANGED <<model, n, i, msg, waits, returned, effects, ledger, trace, aborted>>

\* the wrapper sleeps and calls again
Backoff ==
    /\ pc = "backoff"
    /\ Len(waits) < MaxRetries
    /\ \E sleep \in Sleeps(Len(waits)) : waits' = Append(waits, sleep)
    /\ pc' = "call"
    /\ UNCHANGED <<model, n, i, msg, analysis, calls, returned, effects, ledger, trace, aborted>>

\* the wrapper's deadline has passed: it raises instead of sleeping
GiveUp ==
    /\ pc = "backoff"
    /\ \E exc \in {"RetryError", "ResourceExhausted"} : analysis' = Handler(exc)
    /\ pc' = "dispatch"
    /\ UNCHANGED <<model, n, i, msg, calls, waits, returned, effects, ledger, trace, aborted>>

\* process_emails goes on with the value analyze_email returned: the record of
\* the call that produced it (the locals of the retry wrapper) is dropped
ForgetCall ==
    /\ calls' = <<>>
    /\ waits' = <<>>
    /\ returned' = None

\* analysis.get raises AttributeError: analysis is no dict
DispatchFails ==
    /\ pc = "dispatch"
    /\ ~IsDict(analysis)
    /\ Abort(IF analysis.type = "raised" THEN analysis.exc ELSE "AttributeError")
    /\ ForgetCall
    /\ UNCHANGED <<model, n, i, msg, analysis, effects, ledger, trace>>

\* what `trace` keeps of a call: which call, for which message, and its outcome
Brief(e) ==
    CASE e.op = "POST"   -> [op |-> "POST", id |-> e.id, table |-> e.table,
                             created |-> Truthy(CreateReturn(e.outcome)[1])]
      [] e.op = "append" -> [op |-> "append", id |-> e.id]
      [] e.op = "send"   -> [op |-> "send", id |-> e.id, delivered |-> e.delivered]
      [] e.op = "PATCH"  -> [op |-> "PATCH", id |-> e.id]

Briefly(es) == [k \in DOMAIN es |-> Brief(es[k])]

\* action == "ignore", and the three branches that only log
DispatchLog ==
    /\ pc = "dispatch"
    /\ IsDict(analysis)
    /\ Get(analysis, "action") = "ignore" \/ IsLogged(Get(analysis, "action"))
    /\ pc' = "mark"
    /\ ForgetCall
    /\ UNCHANGED <<model, n, i, msg, analysis, effects, ledger, trace, aborted>>

\* send_approval_email: the message handed to messages().send()
ApprovalEmail(ticket_number, subject, description) ==
    [to |-> ManagerEmail, ticket_number |-> ticket_number,
     title |-> subject, description |-> description]

\* the events of the create branch, for a backend and a gateway outcome
CreateEvents(table, priority, outcome, delivered) ==
    LET ticket == CreateReturn(outcome)
        post == [op |-> "POST", id |-> i, table |-> table,
                 data |-> CreateData(table, msg.subject, msg.body, priority),
                 outcome |-> outcome]
        append == [op |-> "append", id |-> i, line |-> msg.subject]
        send == [op |-> "send", id |-> i,
                 message |-> ApprovalEmail(ticket[2], msg.subject, msg.body),
                 delivered |-> delivered]
    IN  <<post>>
        \o (IF Truthy(ticket[1]) THEN <<append>> ELSE <<>>)
        \o (IF Truthy(ticket[1]) /\ table = "change_request" THEN <<send>> ELSE <<>>)

\* CreateLines without the `if ticket_id:` test
CreateLinesAlways(outcome) == <<msg.subject>>

\* the lines the create branch appends to ticket_ids.txt
CreateLines(outcome) ==
    IF Truthy(CreateReturn(outcome)[1]) THEN <<msg.subject>> ELSE <<>>

\* action == "create_incident" or action == "create_change"
DispatchCreate ==
    /\ pc = "dispatch"
    /\ IsDict(analysis)
    /\ IsCreate(Get(analysis, "action"))
    /\ \E outcome \in PostOutcomes, delivered \in BOOLEAN :
         /\ effects' = CreateEvents(Get(analysis, "table"), Get(analysis, "priority"),
                                    outcome, delivered)
         /\ trace' = trace \o Briefly(effects')
         /\ ledger' = ledger \o CreateLines(outcome)
    /\ pc' = "mark"
    /\ ForgetCall
    /\ UNCHANGED <<model, n, i, msg, analysis, aborted>>

\* the events of the update branch: state_map.get(status) raises TypeError for
\* an unhashable status, before any request is made
UpdateEvents(table, ticket_number, status, comment, priority, outcome) ==
    IF IsHashable(status)
    THEN <<[op |-> "PATCH", id |-> i, table |-> table, ticket_number |-> ticket_number,
            data |-> UpdateData(table, status, comment, priority),
            outcome |-> outcome]>>
    ELSE <<>>

\* action == "update_ticket"
DispatchUpdate ==
    /\ pc = "dispatch"
    /\ IsDict(analysis)
    /\ IsUpdate(Get(analysis, "action"))
    /\ \E outcome \in PatchOutcomes :
         /\ effects' = UpdateEvents(Get(analysis, "table"), Get(analysis, "ticket_number"),
                                    Get(analysis, "status"), Get(analysis, "comment"),
                                    Get(analysis, "priority"), outcome)
         /\ trace' = trace \o Briefly(effects')
    /\ pc' = "mark"
    /\ ForgetCall
    /\ UNCHANGED <<model, n, i, msg, analysis, ledger, aborted>>

\* messages().modify(): message i is marked read; then the next message, after
\* the 5 second pause, or the end of the batch
MarkRead ==
    /\ pc = "mark"
    /\ trace' = Append(trace, [op |-> "modify", id |-> i])
    /\ IF i < n - 1
       THEN /\ i' = i + 1
            /\ pc' = "get"
       ELSE /\ pc' = "done"
            /\ UNCHANGED i
    /\ UNCHANGED <<model, n, msg, analysis, calls, waits, returned, effects, ledger, aborted>>

MarkFails ==
    /\ pc = "mark"
    /\ Abort("HttpError")
    /\ UNCHANGED <<model, n, i, msg, analysis, calls, waits, returned, effects, ledger, trace>>

Next ==
    \/ GetService
    \/ ListMessages
    \/ ListFails
    \/ GetMessage
    \/ GetFails
    \/ AnalyzeByRule
    \/ AnalyzeByModel
    \/ CallReturns
    \/ CallRaises
    \/ Backoff
    \/ GiveUp
    \/ DispatchFails
    \/ DispatchLog
    \/ DispatchCreate
    \/ DispatchUpdate
    \/ MarkRead
    \/ MarkFails

Spec == Init /\ [][Next]_vars

\* ---------------------------------------------------------------- claims

\* analyze_email has returned for the message being processed
Analyzed == pc = "dispatch"

\* message i has been dispatched (the if/elif chain of process_emails is done)
Dispatched == pc = "mark"

PostsOf(es) == {k \in DOMAIN es : es[k].op = "POST"}
PatchesOf(es) == {k \in DOMAIN es : es[k].op = "PATCH"}
SendsOf(es) == {k \in DOMAIN es : es[k].op = "send"}
AppendsOf(es) == {k \in DOMAIN es : es[k].op = "append"}

\* C1: for every body that starts with "change:" in any letter case,
\* analyze_email returns create_change / change_request / New / normal,
\* whether or not the language model was initialized.
C1_ChangePrefixWins ==
    (Analyzed /\ StartsWith(Lower(msg.body), LitChange))
        => analysis = PyDict([action |-> "create_change", priority |-> "normal",
                              table |-> "change_request", status |-> "New"])

\* the body holds, at position p, "set ticket <3 letters><7 digits> to <status>"
\* in any letter case
NamesStatusAt(body, p, status) ==
    LET s == Lower(body)
        t == p + Len(LitSetTicket)
        w == t + 10 + Len(LitTo)
        name == Lower(Chars(status))
    IN  /\ HasAt(s, p, LitSetTicket)
        /\ t + 9 <= Len(s)
        /\ \A k \in 0..2 : s[t + k] \in Range(LowerChars)
        /\ \A k \in 3..9 : s[t + k] \in DigitChars
        /\ HasAt(s, t + 10, LitTo)
        /\ HasAt(s, w, name)
        /\ (w + Len(name) <= Len(s) => ~IsWordChar(s[w + Len(name)]))

\* C2: a body (not starting with "change:") that holds a command
\* "set ticket <3 letters><7 digits> to <status>", <status> any of the six
\* statuses, yields update_ticket with the upper-cased ticket number, the
\* table of its prefix, that status, and the comment after "with comment: "
\* or "Updated via email".
C2_UpdateCommandAnyStatus ==
    (Analyzed /\ model /\ ~StartsWith(Lower(msg.body), LitChange))
        => \A p \in 1..Len(msg.body), status \in StateMapKeys :
             NamesStatusAt(msg.body, p, status)
                => LET number == Upper(SubSeq(msg.body, p + Len(LitSetTicket),
                                              p + Len(LitSetTicket) + 9))
                   IN  /\ IsDict(analysis)
                       /\ Get(analysis, "action") = "update_ticket"
                       /\ Get(analysis, "ticket_number") = Str(number)
                       /\ Get(analysis, "table") =
                            (IF SubSeq(number, 1, 3) = LitINC THEN "incident"
                             ELSE "change_request")
                       /\ Get(analysis, "status") = status
                       /\ Get(analysis, "comment") =
                            (IF CommentSearch(msg.body) # 0
                             THEN Str(CommentText(msg.body, CommentSearch(msg.body)))
                             ELSE "Updated via email")

\* C3: every update request goes to the table of the ticket number's prefix:
\* incident for INC, change_request otherwise, whichever path produced the
\* action and whatever table the classifier supplied.
C3_UpdateTableFromPrefix ==
    \A k \in PatchesOf(effects) :
        effects[k].ticket_number # None
            => effects[k].table =
                 (IF StartsWith(Chars(effects[k].ticket_number), LitINC)
                  THEN "incident" ELSE "change_request")

RateLimited(call) == "raised" \in DOMAIN call /\ call.raised = "ResourceExhausted"
Failed(call) == "raised" \in DOMAIN call
Succeeded(call) == "response" \in DOMAIN call

\* the call failed three times in a row with a rate-limit error, then succeeded
ThreeRateLimitsThenSuccess ==
    /\ Analyzed
    /\ Len(calls) = 4
    /\ \A k \in 1..3 : RateLimited(calls[k])
    /\ Succeeded(calls[4])

\* a failure that is no rate-limit error is the last call: it is not retried
OtherErrorsNotRetried ==
    \A k \in DOMAIN calls :
        (Failed(calls[k]) /\ ~RateLimited(calls[k])) => k = Len(calls)

NotJsonTexts ==
    {<<>>, <<Prose>>, <<"incident_high", " ", "change">>,
     <<Backtick, Backtick, Backtick, "j", "s", "o", "n", "\n", Prose, "\n",
       Backtick, Backtick, Backtick, "\n">>,
     <<Backtick, Backtick, Backtick, " ", "j", "s", "o", "n", "\n", "change", "\n",
       Backtick, Backtick, Backtick>>}

TheSafeDefault ==
    [type |-> "dict",
     items |-> [action |-> "ignore", priority |-> "normal",
                table |-> "incident", status |-> "New"]]

RequestKinds == {"create_incident", "create_change", "update_ticket"}

\* C6: a request to the backend, a ledger line or an approval e-mail is made
\* only for create_incident, create_change and update_ticket; for ignore, the
\* set_* kinds, approve, deny and a kind outside the enumeration nothing is.
C6_OnlyThreeKindsAct ==
    /\ effects # <<>> => (IsDict(analysis) /\ Get(analysis, "action") \in RequestKinds)
    /\ \A k \in DOMAIN trace :
         (trace[k].op \in {"POST", "PATCH", "append", "send"} /\ trace[k].id = i)
            => effects # <<>>
    /\ Len(ledger) = Cardinality(AppendsOf(trace))

C6_Witness ==
    /\ pc = "done"
    /\ n = 2
    /\ aborted = "no"
    /\ Get(analysis, "action") = "escalate"
    /\ \A k \in DOMAIN trace : trace[k].op \in {"get", "modify"}

\* C7: the create request for action.table has short_description = subject,
\* description = body, state "1", urgency and impact "1" for priority high and
\* "2" otherwise, and approval = "requested" exactly for change_request.
C7_CreatePayload ==
    /\ (Dispatched /\ Get(analysis, "action") \in {"create_incident", "create_change"})
         => (effects # <<>> /\ effects[1].op = "POST")
    /\ \A k \in PostsOf(effects) :
         LET data == effects[k].data
             code == IF Get(analysis, "priority") = "high" THEN "1" ELSE "2"
         IN  /\ effects[k].table = Get(analysis, "table")
             /\ data.short_description = msg.subject
             /\ data.description = msg.body
             /\ data.state = "1"
             /\ data.urgency = code
             /\ data.impact = code
             /\ ("approval" \in DOMAIN data) = (effects[k].table = "change_request")
             /\ "approval" \in DOMAIN data => data.approval = "requested"

C7_Witness ==
    /\ Dispatched
    /\ Get(analysis, "action") = "create_incident"
    /\ Get(analysis, "priority") = "high"
    /\ effects[1].data.urgency = "1"
    /\ "approval" \notin DOMAIN effects[1].data

C9_UpdatePayload ==
    /\ (Dispatched /\ Get(analysis, "action") = "update_ticket"
          /\ Get(analysis, "status") \in
               {"New", "In Progress", "On Hold", "Resolved", "Closed", "Cancelled"})
         => (Len(effects) = 1 /\ effects[1].op = "PATCH")
    /\ \A k \in PatchesOf(effects) :
         LET data == effects[k].data
             status == Get(analysis, "status")
         IN  /\ effects[k].table = Get(analysis, "table")
             /\ effects[k].ticket_number = Get(analysis, "ticket_number")
             /\ status = "New" => data.state = "1"
             /\ status = "In Progress" => data.state = "2"
             /\ status = "On Hold" => data.state = "3"
             /\ status = "Resolved" => data.state = "6"
             /\ status = "Closed" => data.state = "7"
             /\ status = "Cancelled" => data.state = "8"
             /\ data.comments = Get(analysis, "comment")
             /\ ("approval" \in DOMAIN data)
                  = (effects[k].table = "change_request" /\ status = "In Progress")
             /\ "approval" \in DOMAIN data => data.approval = "approved"

C9_Witness ==
    /\ Dispatched
    /\ Get(analysis, "status") = "Resolved"
    /\ effects # <<>>
    /\ effects[1].op = "PATCH"
    /\ effects[1].data.state = "6"
    /\ effects[1].data.comments = "fixed root cause"

\* the ids of the messages marked read, in the order of the marking
RECURSIVE MarkedRead(_)
MarkedRead(es) ==
    IF es = <<>> THEN <<>>
    ELSE IF es[1].op = "modify" THEN <<es[1].id>> \o MarkedRead(Tail(es))
    ELSE MarkedRead(Tail(es))

\* C10: when the calls to the mail provider succeed, every message of the
\* batch is dispatched and marked read, in order, before process_emails
\* returns, whatever the model and the backend do.
C10_BatchCompletes ==
    (pc = "done" /\ aborted # "HttpError")
        => MarkedRead(trace) = [k \in 1..n |-> k - 1]

====
